---- MODULE Spec2Model ----
(***************************************************************************)
(* The derived-event and notification engine of the lab lending dashboard: *)
(* NotificationCenter.tsx (loadNotifications, markAsRead, markAllAsRead,   *)
(* the unread-count effect, the polling timer) and ActivityFeed.tsx        *)
(* (loadActivities, the filter selector, the polling timer).               *)
(*                                                                         *)
(* Time is counted in half days: a timestamp string is modelled by the     *)
(* number new Date(s).getTime() gives for it, in units of 12 hours.        *)
(* Display strings built from names and quantities (message, description,  *)
(* user, component) are left out of the records; every other field is kept.*)
(***************************************************************************)
EXTENDS Integers, Sequences, FiniteSets, TLC

\* ------------------------------------------------------------------ bounds

\* requests the repository holds in the panel specifications
MaxRequests == 2
\* last instant of the clock
MaxTime == 2
\* longest loan a request asks for, from its request date to its due date
MaxLoan == 1
\* requests of a repository handed to loadActivities as an input
MaxFeedRequests == 2
\* last timestamp of such a request
MaxStamp == 1
\* largest maxItems tried besides the default
MaxItemsArg == 3
\* requests of a repository large enough to pass the notification cap
MaxCapRequests == 12
\* last due date of a request handed to loadNotifications as an input
MaxDue == 7
\* requests of a repository handed to loadNotifications as an input
MaxRuleRequests == 2

\* --------------------------------------------------------------- constants

\* (1000 * 3600 * 24) milliseconds, in the model's unit of 12 hours
DAY == 2

\* userNotifications.slice(0, 20)
NotificationCap == 20

\* maxItems = 10
DefaultMaxItems == 10

\* an optional date field that is absent (a falsy approvedDate / returnedDate)
NoDate == -1

Statuses == {"pending", "approved", "returned", "rejected", "overdue"}

StudentIds == {"s1", "s2"}

NoUser == [id |-> "", role |-> "absent"]
AdminUser == [id |-> "a1", role |-> "admin"]
StudentUser == [id |-> "s1", role |-> "student"]
Users == {NoUser, AdminUser, StudentUser}

Filters == {"all", "requests", "approvals", "returns"}

\* ----------------------------------------------------------------- helpers

Min(a, b) == IF a <= b THEN a ELSE b

\* Math.ceil(a / DAY) for an integer a of either sign
CeilDays(a) == IF a >= 0 THEN (a + DAY - 1) \div DAY ELSE -((-a) \div DAY)

\* Array.prototype.slice(0, end): a negative end counts from the end
Slice(s, end) ==
  LET n == Len(s)
      e == IF end < 0 THEN (IF n + end < 0 THEN 0 ELSE n + end) ELSE Min(end, n)
  IN  SubSeq(s, 1, e)

\* Array.prototype.filter
RECURSIVE FilterSeq(_, _)
FilterSeq(s, keep) ==
  IF s = <<>> THEN <<>>
  ELSE IF keep[Head(s)] THEN <<Head(s)>> \o FilterSeq(Tail(s), keep)
       ELSE FilterSeq(Tail(s), keep)

RECURSIVE FlatSeq(_)
FlatSeq(ss) == IF ss = <<>> THEN <<>> ELSE Head(ss) \o FlatSeq(Tail(ss))

\* a date field whose string new Date cannot parse, or that is missing
Malformed == -2

\* the number NaN, outside the range of every difference of two stamps
NaN == -1000

\* new Date(ts).getTime(): a well-formed timestamp of the model is the number
\* its parse gives, in half days; an Invalid Date gives NaN
GetTime(ts) == IF ts = Malformed THEN NaN ELSE ts

\* ------------------------------------------- NotificationCenter: synthesis

\* a filter that also takes the requests marked overdue as awaiting a decision
pendingRequests_Unhandled(reqs) ==
  FilterSeq(reqs, [r \in {reqs[i] : i \in 1..Len(reqs)} |->
     r.status = "pending" \/ r.status = "overdue"])

pendingRequests(reqs) ==
  FilterSeq(reqs, [r \in {reqs[i] : i \in 1..Len(reqs)} |-> r.status = "pending"])

\* a filter that takes the requests marked overdue as well
overdueRequests_Marked(reqs, today) ==
  FilterSeq(reqs, [r \in {reqs[i] : i \in 1..Len(reqs)} |->
     IF r.status # "approved" /\ r.status # "overdue" THEN FALSE
     ELSE GetTime(r.dueDate) < today])

overdueRequests(reqs, today) ==
  FilterSeq(reqs, [r \in {reqs[i] : i \in 1..Len(reqs)} |->
     IF r.status # "approved" THEN FALSE
     ELSE GetTime(r.dueDate) < today])

recentCheckouts(reqs, today) ==
  FilterSeq(reqs, [r \in {reqs[i] : i \in 1..Len(reqs)} |->
     IF r.status # "approved" \/ r.approvedDate = NoDate THEN FALSE
     ELSE GetTime(r.approvedDate) > today - DAY])

recentReturns(reqs, today) ==
  FilterSeq(reqs, [r \in {reqs[i] : i \in 1..Len(reqs)} |->
     IF r.status # "returned" \/ r.returnedDate = NoDate THEN FALSE
     ELSE GetTime(r.returnedDate) > today - DAY])

\* an identifier built from the request alone, without the rule's prefix
Notif_ByRequest(prefix, type, title, ts, r, prio) ==
  [id |-> <<"notification", r.id>>, type |-> type, title |-> title, timestamp |-> ts,
   read |-> FALSE, requestId |-> r.id, priority |-> prio]

Notif(prefix, type, title, ts, r, prio) ==
  [id |-> <<prefix, r.id>>, type |-> type, title |-> title, timestamp |-> ts,
   read |-> FALSE, requestId |-> r.id, priority |-> prio]

adminNotifications(reqs, today) ==
  LET P == pendingRequests(reqs)
      O == overdueRequests(reqs, today)
      C == recentCheckouts(reqs, today)
      R == recentReturns(reqs, today)
  IN  [i \in 1..Len(P) |->
         Notif("pending", "approval", "New Component Request",
               P[i].requestDate, P[i], "high")]
      \o [i \in 1..Len(O) |->
         Notif("overdue", "reminder", "Overdue Component",
               O[i].dueDate, O[i], "high")]
      \o [i \in 1..Len(C) |->
         Notif("checkout", "checkout", "Component Checked Out",
               C[i].approvedDate, C[i], "medium")]
      \o [i \in 1..Len(R) |->
         Notif("return", "return", "Component Returned",
               R[i].returnedDate, R[i], "medium")]

daysDiff(r, today) == CeilDays(GetTime(r.dueDate) - today)

\* a reminder that is not guarded by the status
studentRequestNotifications_RemindAny(r, today) ==
  (IF r.status = "approved" /\ r.approvedDate # NoDate
   THEN <<Notif("approved", "approval", "Request Approved!",
                r.approvedDate, r, "high")>>
   ELSE <<>>)
  \o
  (IF r.status = "rejected"
   THEN <<Notif("rejected", "rejection", "Request Rejected",
                r.requestDate, r, "medium")>>
   ELSE <<>>)
  \o
  (IF daysDiff(r, today) <= 2 /\ daysDiff(r, today) >= 0
   THEN <<Notif("reminder", "reminder", "Return Reminder", today, r,
                IF daysDiff(r, today) = 0 THEN "high" ELSE "medium")>>
   ELSE <<>>)

studentRequestNotifications(r, today) ==
  (IF r.status = "approved" /\ r.approvedDate # NoDate
   THEN <<Notif("approved", "approval", "Request Approved!",
                r.approvedDate, r, "high")>>
   ELSE <<>>)
  \o
  (IF r.status = "rejected"
   THEN <<Notif("rejected", "rejection", "Request Rejected",
                r.requestDate, r, "medium")>>
   ELSE <<>>)
  \o
  (IF r.status = "approved" /\ daysDiff(r, today) <= 2 /\ daysDiff(r, today) >= 0
   THEN <<Notif("reminder", "reminder", "Return Reminder", today, r,
                IF daysDiff(r, today) = 0 THEN "high" ELSE "medium")>>
   ELSE <<>>)

\* a student view that forgets to keep the user's own requests only
studentNotifications_AllRequests(reqs, user, today) ==
  FlatSeq([i \in 1..Len(reqs) |-> studentRequestNotifications(reqs[i], today)])

studentNotifications(reqs, user, today) ==
  LET userRequests ==
        FilterSeq(reqs, [r \in {reqs[i] : i \in 1..Len(reqs)} |->
                           r.studentId = user.id])
  IN  FlatSeq([i \in 1..Len(userRequests) |->
                 studentRequestNotifications(userRequests[i], today)])

userNotifications(reqs, user, today) ==
  IF user.role = "admin" THEN adminNotifications(reqs, today)
  ELSE studentNotifications(reqs, user, today)

\* ---------------------------------------------- NotificationCenter: ordering

priorityOrder(p) == CASE p = "high" -> 3 [] p = "medium" -> 2 [] p = "low" -> 1

\* a comparator that forgets the priority key
compareNotifications_ByTimestamp(a, b) == GetTime(b.timestamp) - GetTime(a.timestamp)

\* the comparator handed to userNotifications.sort
compareNotifications(a, b) ==
  IF priorityOrder(a.priority) # priorityOrder(b.priority)
  THEN priorityOrder(b.priority) - priorityOrder(a.priority)
  ELSE GetTime(b.timestamp) - GetTime(a.timestamp)

\* Array.prototype.sort is stable: x goes before the first element that the
\* comparator orders after it, behind every element it ties with
insertNotification(sorted, x) ==
  LET later == {i \in 1..Len(sorted) : compareNotifications(sorted[i], x) > 0}
      k == IF later = {} THEN Len(sorted) + 1
           ELSE CHOOSE i \in later : \A j \in later : i <= j
  IN  SubSeq(sorted, 1, k - 1) \o <<x>> \o SubSeq(sorted, k, Len(sorted))

RECURSIVE sortNotifications(_)
sortNotifications(s) ==
  IF s = <<>> THEN <<>>
  ELSE insertNotification(sortNotifications(SubSeq(s, 1, Len(s) - 1)), s[Len(s)])

\* the cap applied to the synthesized list before it is ordered
derivedNotifications_CapFirst(reqs, user, today) ==
  sortNotifications(Slice(userNotifications(reqs, user, today), NotificationCap))

\* what loadNotifications hands to setNotifications for a present user
derivedNotifications(reqs, user, today) ==
  Slice(sortNotifications(userNotifications(reqs, user, today)), NotificationCap)

unreadOf(ns) == Cardinality({i \in 1..Len(ns) : ~ns[i].read})

\* ------------------------------------------------- ActivityFeed: synthesis

Item(kind, title, ts, r, status, prio) ==
  [id |-> <<kind, r.id>>, type |-> kind, title |-> title, timestamp |-> ts,
   status |-> status, priority |-> prio]

\* synthesis that looks at the date fields only, not at the status
requestActivities_ByDates(r) ==
  <<Item("request", "Component Request Submitted", r.requestDate, r,
         "pending", "medium")>>
  \o
  (IF r.approvedDate # NoDate
   THEN <<Item("approval", "Request Approved", r.approvedDate, r,
               "approved", "high"),
          Item("checkout", "Component Checked Out", r.approvedDate, r,
               "approved", "medium")>>
   ELSE <<>>)
  \o
  (IF r.returnedDate # NoDate
   THEN <<Item("return", "Component Returned", r.returnedDate, r,
               "returned", "medium")>>
   ELSE <<>>)
  \o
  (IF r.status = "rejected"
   THEN <<Item("rejection", "Request Rejected", r.requestDate, r,
               "rejected", "low")>>
   ELSE <<>>)

\* the items one request pushes, in the order it pushes them
requestActivities(r) ==
  <<Item("request", "Component Request Submitted", r.requestDate, r,
         "pending", "medium")>>
  \o
  (IF r.status = "approved" /\ r.approvedDate # NoDate
   THEN <<Item("approval", "Request Approved", r.approvedDate, r,
               "approved", "high"),
          Item("checkout", "Component Checked Out", r.approvedDate, r,
               "approved", "medium")>>
   ELSE <<>>)
  \o
  (IF r.status = "returned" /\ r.returnedDate # NoDate
   THEN <<Item("return", "Component Returned", r.returnedDate, r,
               "returned", "medium")>>
   ELSE <<>>)
  \o
  (IF r.status = "rejected"
   THEN <<Item("rejection", "Request Rejected", r.requestDate, r,
               "rejected", "low")>>
   ELSE <<>>)

activityItems(reqs) == FlatSeq([i \in 1..Len(reqs) |-> requestActivities(reqs[i])])

\* a comparator with its operands swapped: oldest first
compareActivities_Ascending(a, b) == GetTime(a.timestamp) - GetTime(b.timestamp)

\* the comparator handed to activityItems.sort; NaN minus anything is NaN
compareActivities(a, b) ==
  LET x == GetTime(b.timestamp)
      y == GetTime(a.timestamp)
  IN  IF x = NaN \/ y = NaN THEN NaN ELSE x - y

\* Array.prototype.sort reads a comparator's NaN as +0
SortCompare(a, b) ==
  LET v == compareActivities(a, b) IN IF v = NaN THEN 0 ELSE v

\* an insertion that puts x before the elements it ties with: an unstable sort
insertActivity_Unstable(sorted, x) ==
  LET later == {i \in 1..Len(sorted) : compareActivities(sorted[i], x) >= 0}
      k == IF later = {} THEN Len(sorted) + 1
           ELSE CHOOSE i \in later : \A j \in later : i <= j
  IN  SubSeq(sorted, 1, k - 1) \o <<x>> \o SubSeq(sorted, k, Len(sorted))

\* Array.prototype.sort is stable: x goes before the first element that the
\* comparator orders after it, behind every element it ties with
insertActivity(sorted, x) ==
  LET later == {i \in 1..Len(sorted) : SortCompare(sorted[i], x) > 0}
      k == IF later = {} THEN Len(sorted) + 1
           ELSE CHOOSE i \in later : \A j \in later : i <= j
  IN  SubSeq(sorted, 1, k - 1) \o <<x>> \o SubSeq(sorted, k, Len(sorted))

RECURSIVE sortActivities(_)
sortActivities(s) ==
  IF s = <<>> THEN <<>>
  ELSE insertActivity(sortActivities(SubSeq(s, 1, Len(s) - 1)), s[Len(s)])

\* whether the comparator is a consistent comparison function for the items
\* of s: ties and strict precedence are both transitive
ConsistentComparator(s) ==
  LET items == {s[i] : i \in 1..Len(s)}
  IN  \A a, b, c \in items :
        /\ SortCompare(a, b) = 0 /\ SortCompare(b, c) = 0 => SortCompare(a, c) = 0
        /\ SortCompare(a, b) < 0 /\ SortCompare(b, c) < 0 => SortCompare(a, c) < 0
        /\ SortCompare(a, b) < 0 /\ SortCompare(b, c) = 0 => SortCompare(a, c) < 0
        /\ SortCompare(a, b) = 0 /\ SortCompare(b, c) < 0 => SortCompare(a, c) < 0

RECURSIVE Orderings(_)
Orderings(items) ==
  IF items = {} THEN {<<>>}
  ELSE UNION {{<<x>> \o p : p \in Orderings(items \ {x})} : x \in items}

\* the orders activityItems.sort may leave: the stable order under a
\* consistent comparator, an order of the engine's choosing otherwise
sortOutcomes(s) ==
  IF ConsistentComparator(s) THEN {sortActivities(s)}
  ELSE Orderings({s[i] : i \in 1..Len(s)})

\* a switch whose approvals case forgets the checkout kind
admits_ApprovalOnly(f, type) ==
  CASE f = "requests" -> type = "request"
    [] f = "approvals" -> type = "approval"
    [] f = "returns" -> type = "return"
    [] OTHER -> TRUE

\* the switch of the filter callback
admits(f, type) ==
  CASE f = "requests" -> type = "request"
    [] f = "approvals" -> type = "approval" \/ type = "checkout"
    [] f = "returns" -> type = "return"
    [] OTHER -> TRUE

filterActivities(items, f) ==
  IF f # "all"
  THEN FilterSeq(items, [a \in {items[i] : i \in 1..Len(items)} |-> admits(f, a.type)])
  ELSE items

\* truncation before the filter is applied
loadedActivities_SliceFirst(reqs, f, m) ==
  filterActivities(Slice(sortActivities(activityItems(reqs)), m), f)

\* what loadActivities hands to setActivities
loadedActivities(reqs, f, m) ==
  Slice(filterActivities(sortActivities(activityItems(reqs)), f), m)

\* what loadActivities may hand to setActivities
loadOutcomes(reqs, f, m) ==
  {Slice(filterActivities(order, f), m) : order \in sortOutcomes(activityItems(reqs))}

\* -------------------------------------------------------------------- state

VARIABLES
  requests,       \* storage.getRequests(): the request repository
  now,            \* the clock new Date() reads
  currentUser,    \* auth.getCurrentUser() as the mounted panel captured it
  notifications,  \* NotificationCenter: useState<Notification[]>
  unreadCount,    \* NotificationCenter: useState(0)
  reported,       \* last count handed to onNotificationUpdate (-1: never called)
  effectPending,  \* notifications changed and the unread effect has not run yet
  ncTimer,        \* "none" | "active" | "cleared": the panel's setInterval
  activities,     \* ActivityFeed: useState<ActivityItem[]>
  filter,         \* ActivityFeed: useState('all'), the filter selector
  loading,        \* ActivityFeed: useState(true)
  maxItems,       \* ActivityFeed: the maxItems prop
  closureFilter,  \* the filter the loadActivities held by the timer closes over
  afTimer         \* "none" | "active" | "cleared": the feed's setInterval

vars == <<requests, now, currentUser, notifications, unreadCount, reported,
          effectPending, ncTimer, activities, filter, loading, maxItems,
          closureFilter, afTimer>>

envVars == <<requests, now>>
ncVars == <<currentUser, notifications, unreadCount, reported, effectPending, ncTimer>>
afVars == <<activities, filter, loading, maxItems, closureFilter, afTimer>>

\* ------------------------------------------------------------- environment

\* a student files a request: it starts pending
Submit(s, loan) ==
  /\ Len(requests) < MaxRequests
  /\ requests' = Append(requests,
        [id |-> Len(requests) + 1, studentId |-> s, status |-> "pending",
         requestDate |-> now, approvedDate |-> NoDate, returnedDate |-> NoDate,
         dueDate |-> now + loan])
  /\ UNCHANGED <<now, ncVars, afVars>>

Approve(i) ==
  /\ requests[i].status = "pending"
  /\ requests' = [requests EXCEPT ![i].status = "approved", ![i].approvedDate = now]
  /\ UNCHANGED <<now, ncVars, afVars>>

Reject(i) ==
  /\ requests[i].status = "pending"
  /\ requests' = [requests EXCEPT ![i].status = "rejected"]
  /\ UNCHANGED <<now, ncVars, afVars>>

Return(i) ==
  /\ requests[i].status = "approved"
  /\ requests' = [requests EXCEPT ![i].status = "returned", ![i].returnedDate = now]
  /\ UNCHANGED <<now, ncVars, afVars>>

Advance ==
  /\ now < MaxTime
  /\ now' = now + 1
  /\ UNCHANGED <<requests, ncVars, afVars>>

\* ------------------------------------------------- NotificationCenter: steps

\* loadNotifications without its early return, an absent user seeing the
\* admin view
loadNotifications_NoGuard ==
  /\ notifications' = derivedNotifications(requests,
        IF currentUser = NoUser THEN AdminUser ELSE currentUser, now)
  /\ effectPending' = TRUE

\* a load that keeps the notifications it finds whose identifier is not
\* synthesized any more, behind the fresh ones
loadNotifications_Merge ==
  IF currentUser = NoUser
  THEN UNCHANGED <<notifications, effectPending>>
  ELSE LET fresh == derivedNotifications(requests, currentUser, now)
           Gone(n) == \A i \in 1..Len(fresh) : fresh[i].id # n.id
       IN  /\ notifications' = fresh \o SelectSeq(notifications, Gone)
           /\ effectPending' = TRUE

\* a load that adds the fresh synthesis to the list it finds
loadNotifications_Append ==
  IF currentUser = NoUser
  THEN UNCHANGED <<notifications, effectPending>>
  ELSE /\ notifications' =
            notifications \o derivedNotifications(requests, currentUser, now)
       /\ effectPending' = TRUE

\* loadNotifications: nothing is set for an absent user; otherwise the list is
\* replaced by the freshly synthesized one
loadNotifications ==
  IF currentUser = NoUser
  THEN UNCHANGED <<notifications, effectPending>>
  ELSE /\ notifications' = derivedNotifications(requests, currentUser, now)
       /\ effectPending' = TRUE

\* first commit: the timer effect loads and starts the interval, the unread
\* effect runs on the still empty list
NCMount ==
  /\ ncTimer = "none"
  /\ loadNotifications
  /\ ncTimer' = "active"
  /\ unreadCount' = unreadOf(notifications)
  /\ reported' = unreadOf(notifications)
  /\ UNCHANGED <<currentUser, envVars, afVars>>

NCTick ==
  /\ ncTimer = "active"
  /\ ~effectPending
  /\ loadNotifications
  /\ UNCHANGED <<currentUser, unreadCount, reported, ncTimer, envVars, afVars>>

NCUnmount ==
  /\ ncTimer = "active"
  /\ ncTimer' = "cleared"
  /\ UNCHANGED <<currentUser, notifications, unreadCount, reported,
                 effectPending, envVars, afVars>>

\* a match on the linked request instead of the identifier
markAsRead_ByRequest(notificationId) ==
  /\ ncTimer = "active"
  /\ ~effectPending
  /\ notifications' = [i \in 1..Len(notifications) |->
        IF notifications[i].requestId = notificationId[2]
        THEN [notifications[i] EXCEPT !.read = TRUE]
        ELSE notifications[i]]
  /\ effectPending' = TRUE
  /\ UNCHANGED <<currentUser, unreadCount, reported, ncTimer, envVars, afVars>>

markAsRead(notificationId) ==
  /\ ncTimer = "active"
  /\ ~effectPending
  /\ notifications' = [i \in 1..Len(notifications) |->
        IF notifications[i].id = notificationId
        THEN [notifications[i] EXCEPT !.read = TRUE]
        ELSE notifications[i]]
  /\ effectPending' = TRUE
  /\ UNCHANGED <<currentUser, unreadCount, reported, ncTimer, envVars, afVars>>

\* a "mark all" that dismisses the notifications instead
markAllAsRead_Dismiss ==
  /\ ncTimer = "active"
  /\ ~effectPending
  /\ notifications' = <<>>
  /\ effectPending' = TRUE
  /\ UNCHANGED <<currentUser, unreadCount, reported, ncTimer, envVars, afVars>>

markAllAsRead ==
  /\ ncTimer = "active"
  /\ ~effectPending
  /\ notifications' = [i \in 1..Len(notifications) |->
        [notifications[i] EXCEPT !.read = TRUE]]
  /\ effectPending' = TRUE
  /\ UNCHANGED <<currentUser, unreadCount, reported, ncTimer, envVars, afVars>>

\* an effect that counts every notification, read or not
UnreadEffect_Total ==
  /\ effectPending
  /\ ncTimer = "active"
  /\ unreadCount' = Len(notifications)
  /\ reported' = Len(notifications)
  /\ effectPending' = FALSE
  /\ UNCHANGED <<currentUser, notifications, ncTimer, envVars, afVars>>

\* useEffect(..., [notifications, onNotificationUpdate])
UnreadEffect ==
  /\ effectPending
  /\ ncTimer = "active"
  /\ unreadCount' = unreadOf(notifications)
  /\ reported' = unreadOf(notifications)
  /\ effectPending' = FALSE
  /\ UNCHANGED <<currentUser, notifications, ncTimer, envVars, afVars>>

\* ------------------------------------------------------- ActivityFeed: steps

\* loadActivities as the closure created by the render with filter value f
loadActivities(f) ==
  /\ activities' = loadedActivities(requests, f, maxItems)
  /\ loading' = FALSE

\* first commit: useEffect(..., []) loads once and hands this render's
\* loadActivities to setInterval
AFMount ==
  /\ afTimer = "none"
  /\ loadActivities(filter)
  /\ closureFilter' = filter
  /\ afTimer' = "active"
  /\ UNCHANGED <<filter, maxItems, envVars, ncVars>>

\* an interval that is not cleared when the feed unmounts
AFTick_Uncleared ==
  /\ afTimer # "none"
  /\ loadActivities(closureFilter)
  /\ UNCHANGED <<filter, maxItems, closureFilter, afTimer, envVars, ncVars>>

\* the interval calls the loadActivities it was handed at mount
AFTick ==
  /\ afTimer = "active"
  /\ loadActivities(closureFilter)
  /\ UNCHANGED <<filter, maxItems, closureFilter, afTimer, envVars, ncVars>>

\* onClick={() => setFilter(key)}: the effect has no dependency on filter, so
\* nothing is reloaded
setFilter(key) ==
  /\ afTimer = "active"
  /\ ~loading
  /\ filter' = key
  /\ UNCHANGED <<activities, loading, maxItems, closureFilter, afTimer, envVars, ncVars>>

AFUnmount ==
  /\ afTimer = "active"
  /\ afTimer' = "cleared"
  /\ UNCHANGED <<activities, filter, loading, maxItems, closureFilter, envVars, ncVars>>

\* ------------------------------------------------------------ specifications

NCInit ==
  /\ notifications = <<>>
  /\ unreadCount = 0
  /\ reported = -1
  /\ effectPending = FALSE
  /\ ncTimer = "none"

AFInit ==
  /\ activities = <<>>
  /\ filter = "all"
  /\ loading = TRUE
  /\ maxItems = DefaultMaxItems
  /\ closureFilter = "all"
  /\ afTimer = "none"

EnvNext ==
  \/ \E s \in StudentIds, loan \in 0..MaxLoan : Submit(s, loan)
  \/ \E i \in 1..Len(requests) : Approve(i)
  \/ \E i \in 1..Len(requests) : Reject(i)
  \/ \E i \in 1..Len(requests) : Return(i)
  \/ Advance

NotificationIds == {"pending", "overdue", "checkout", "return", "approved",
                    "rejected", "reminder"} \X (1..MaxRequests)

NCNext ==
  \/ NCMount
  \/ NCTick
  \/ NCUnmount
  \/ \E id \in NotificationIds : markAsRead(id)
  \/ markAllAsRead
  \/ UnreadEffect

AFNext ==
  \/ AFMount
  \/ AFTick
  \/ \E key \in Filters : setFilter(key)
  \/ AFUnmount

\* The notification panel over a live repository
Init ==
  /\ requests = <<>>
  /\ now = 0
  /\ currentUser \in Users
  /\ NCInit
  /\ AFInit

Next == EnvNext \/ NCNext

Spec == Init /\ [][Next]_vars

\* The activity feed over a live repository
InitFeed ==
  /\ requests = <<>>
  /\ now = 0
  /\ currentUser = AdminUser
  /\ NCInit
  /\ AFInit

NextFeed == EnvNext \/ AFNext

SpecFeed == InitFeed /\ [][NextFeed]_vars

\* loadActivities as a function of the repository, the filter and maxItems
Stamps == 0..MaxStamp

FeedRequest(i, shape) ==
  [id |-> i, studentId |-> "s1", status |-> shape.status,
   requestDate |-> shape.requestDate, approvedDate |-> shape.approvedDate,
   returnedDate |-> shape.returnedDate, dueDate |-> shape.requestDate]

\* the records a request's life leaves behind, with either date of the
\* current status present or absent, and a pending record that carries dates
FeedShapes ==
  {s \in [status : Statuses, requestDate : Stamps,
          approvedDate : Stamps \cup {NoDate}, returnedDate : Stamps \cup {NoDate}] :
     CASE s.status = "approved" -> s.returnedDate = NoDate
       [] s.status = "returned" -> s.approvedDate = s.requestDate
       [] s.status = "pending" ->
            \/ s.approvedDate = NoDate /\ s.returnedDate = NoDate
            \/ s.approvedDate = s.requestDate /\ s.returnedDate = s.requestDate
       [] s.status = "overdue" ->
            s.approvedDate = s.requestDate /\ s.returnedDate = NoDate
       [] OTHER -> s.approvedDate = NoDate /\ s.returnedDate = NoDate}

\* requests is a repository of n requests, each of one of the shapes
FeedRepository(n) ==
  \E c \in [1..n -> FeedShapes] : requests = [i \in 1..n |-> FeedRequest(i, c[i])]

InitDerive ==
  /\ \E n \in 0..MaxFeedRequests : FeedRepository(n)
  /\ now = MaxStamp
  /\ currentUser = AdminUser
  /\ NCInit
  /\ AFInit

\* one call of loadActivities with the filter f and the limit m in scope
Derive(f, m) ==
  /\ afTimer = "none"
  /\ filter' = f
  /\ maxItems' = m
  /\ closureFilter' = f
  /\ afTimer' = "active"
  /\ activities' = loadedActivities(requests, f, m)
  /\ loading' = FALSE
  /\ UNCHANGED <<envVars, ncVars>>

NextDerive ==
  \E f \in Filters, m \in (0..MaxItemsArg) \cup {DefaultMaxItems} : Derive(f, m)

SpecDerive == InitDerive /\ [][NextDerive]_vars

\* loadActivities over repositories whose date fields may be malformed
MalformedShapes ==
  {s \in [status : Statuses \ {"overdue"}, requestDate : Stamps \cup {Malformed},
          approvedDate : Stamps \cup {Malformed, NoDate},
          returnedDate : Stamps \cup {Malformed, NoDate}] :
     CASE s.status = "approved" -> s.approvedDate # NoDate /\ s.returnedDate = NoDate
       [] s.status = "returned" -> s.approvedDate = s.requestDate /\ s.returnedDate # NoDate
       [] OTHER -> s.approvedDate = NoDate /\ s.returnedDate = NoDate}

MalformedRepository(n) ==
  \E c \in [1..n -> MalformedShapes] : requests = [i \in 1..n |-> FeedRequest(i, c[i])]

InitMalformed ==
  /\ \E n \in 0..MaxFeedRequests : MalformedRepository(n)
  /\ now = MaxStamp
  /\ currentUser = AdminUser
  /\ NCInit
  /\ AFInit

\* one call of loadActivities, the sort leaving any order it may leave
DeriveAny(f, m) ==
  /\ afTimer = "none"
  /\ filter' = f
  /\ maxItems' = m
  /\ closureFilter' = f
  /\ afTimer' = "active"
  /\ activities' \in loadOutcomes(requests, f, m)
  /\ loading' = FALSE
  /\ UNCHANGED <<envVars, ncVars>>

NextMalformed ==
  \E f \in Filters, m \in (0..MaxItemsArg) \cup {DefaultMaxItems} : DeriveAny(f, m)

SpecMalformed == InitMalformed /\ [][NextMalformed]_vars

\* The notification panel over a repository large enough to pass the cap:
\* requests of student s1; every sixth is pending or rejected, the others are
\* approved within the last day and due either half a day ago or in half a day
CapRequest(i, early) ==
  IF i % 6 = 0
  THEN [id |-> i, studentId |-> "s1",
        status |-> IF early THEN "pending" ELSE "rejected",
        requestDate |-> MaxTime - (i % 4), approvedDate |-> NoDate,
        returnedDate |-> NoDate, dueDate |-> MaxTime + 1]
  ELSE [id |-> i, studentId |-> "s1", status |-> "approved",
        requestDate |-> MaxTime - 1, approvedDate |-> MaxTime - (i % 2),
        returnedDate |-> NoDate,
        dueDate |-> IF early THEN MaxTime - 1 ELSE MaxTime + 1]

\* requests is a repository of n template requests
CapRepository(n) ==
  \E c \in [1..n -> BOOLEAN] : requests = [i \in 1..n |-> CapRequest(i, c[i])]

InitCap ==
  /\ \E n \in 0..MaxCapRequests : CapRepository(n)
  /\ now = MaxTime
  /\ currentUser \in Users
  /\ NCInit
  /\ AFInit

NextCap ==
  \/ NCMount
  \/ NCTick
  \/ notifications # <<>> /\ markAsRead(notifications[1].id)
  \/ markAllAsRead
  \/ UnreadEffect

SpecCap == InitCap /\ [][NextCap]_vars

\* loadNotifications as a function of the repository, the user and the clock:
\* a BorrowRequest as loadNotifications reads it
Shape(status, owner, requestDate, approvedDate, returnedDate, dueDate) ==
  [status |-> status, studentId |-> owner, requestDate |-> requestDate,
   approvedDate |-> approvedDate, returnedDate |-> returnedDate,
   dueDate |-> dueDate]

\* requests of either student: approved ones due on every date and approved
\* on any date or none (student s2's: either the one or the other); pending,
\* returned and rejected ones due today and overdue ones due first or last,
\* with the dates their rules read present or absent
RuleShapes ==
  UNION {
    UNION {{Shape("approved", o, 0, ap, NoDate, due) :
              due \in IF o = "s1" \/ ap = MaxStamp THEN 0..MaxDue ELSE {MaxTime}}
           : ap \in Stamps \cup {NoDate}}
    \cup {Shape("pending", o, rq, NoDate, NoDate, MaxTime) : rq \in Stamps}
    \cup {Shape("pending", o, 0, 0, 0, MaxTime)}
    \cup {Shape("returned", o, 0, 0, ret, MaxTime) : ret \in Stamps \cup {NoDate}}
    \cup {Shape("rejected", o, rq, NoDate, NoDate, MaxTime) : rq \in Stamps}
    \cup {Shape("overdue", o, 0, 0, NoDate, due) : due \in {0, MaxDue}}
    : o \in StudentIds}

RuleRequest(i, shape) ==
  [id |-> i, studentId |-> shape.studentId, status |-> shape.status,
   requestDate |-> shape.requestDate, approvedDate |-> shape.approvedDate,
   returnedDate |-> shape.returnedDate, dueDate |-> shape.dueDate]

\* requests is a repository of n requests, each of one of the shapes
RuleRepository(n) ==
  \E c \in [1..n -> RuleShapes] : requests = [i \in 1..n |-> RuleRequest(i, c[i])]

\* the clock reads noon of one day or midnight of the next
InitRules ==
  /\ \E n \in 0..MaxRuleRequests : RuleRepository(n)
  /\ now \in {MaxTime - 1, MaxTime}
  /\ currentUser \in {AdminUser, StudentUser}
  /\ NCInit
  /\ AFInit

\* one call of loadNotifications, at mount
SpecRules == InitRules /\ [][NCMount]_vars

\* The notification panel over a small repository that does not change: the
\* requests due today, student s2's only if approved last
PanelShapes ==
  {s \in RuleShapes :
     /\ s.dueDate = MaxTime
     /\ s.requestDate = 0
     /\ \/ s.studentId = "s1"
        \/ s.status = "approved" /\ s.approvedDate = MaxStamp}

PanelRepository(n) ==
  \E c \in [1..n -> PanelShapes] : requests = [i \in 1..n |-> RuleRequest(i, c[i])]

InitPanel ==
  /\ \E n \in 0..MaxRequests : PanelRepository(n)
  /\ now = MaxTime
  /\ currentUser \in Users
  /\ NCInit
  /\ AFInit

SpecPanel == InitPanel /\ [][NCNext]_vars

\* React runs a passive effect after every commit that changed a dependency
SpecPanelLive == InitPanel /\ [][NCNext]_vars /\ WF_vars(UnreadEffect)

\* Both views over a small repository that does not change, while the clock
\* runs
InitViews ==
  /\ \E n \in 0..MaxRequests : PanelRepository(n)
  /\ now = 0
  /\ currentUser \in Users
  /\ NCInit
  /\ AFInit

NextViews ==
  \/ NCMount
  \/ NCTick
  \/ UnreadEffect
  \/ notifications # <<>> /\ markAsRead(notifications[1].id)
  \/ NCUnmount
  \/ AFMount
  \/ AFTick
  \/ AFUnmount
  \/ Advance

SpecViews == InitViews /\ [][NextViews]_vars

\* The notification panel over a small repository whose requests are
\* approved, rejected and returned while it is shown
NextChange ==
  \/ \E i \in 1..Len(requests) : Approve(i)
  \/ \E i \in 1..Len(requests) : Reject(i)
  \/ \E i \in 1..Len(requests) : Return(i)
  \/ NCMount
  \/ NCTick
  \/ UnreadEffect

SpecChange == InitPanel /\ [][NextChange]_vars

\* Both views, mounted and unmounted, over a small repository whose
\* requests are approved meanwhile
NextLifecycle ==
  \/ \E i \in 1..Len(requests) : Approve(i)
  \/ NCMount
  \/ NCTick
  \/ UnreadEffect
  \/ NCUnmount
  \/ AFMount
  \/ AFTick
  \/ AFUnmount

SpecLifecycle == InitPanel /\ [][NextLifecycle]_vars

\* Both views loaded once over repositories that hold requests of status
\* overdue: a record of that status with its approval and return dates present
\* or absent and its due date passed or ahead, beside one record of every
\* other status
OverdueShapes ==
  {Shape("overdue", "s1", 0, ap, ret, due) :
     ap \in {MaxStamp, NoDate}, ret \in {MaxStamp, NoDate}, due \in {0, MaxTime + 1}}
  \cup {Shape("approved", "s1", 0, MaxStamp, NoDate, 0),
        Shape("pending", "s1", 0, NoDate, NoDate, MaxTime),
        Shape("returned", "s1", 0, 0, 0, MaxTime),
        Shape("rejected", "s1", 0, NoDate, NoDate, MaxTime)}

OverdueRepository(n) ==
  \E c \in [1..n -> OverdueShapes] : requests = [i \in 1..n |-> RuleRequest(i, c[i])]

InitOverdue ==
  /\ \E n \in 0..MaxRuleRequests : OverdueRepository(n)
  /\ now = MaxTime
  /\ currentUser \in {AdminUser, StudentUser}
  /\ NCInit
  /\ AFInit

NextOverdue == NCMount \/ AFMount

SpecOverdue == InitOverdue /\ [][NextOverdue]_vars

\* ------------------------------------------------------------------- claims

IndexOf(s, id) == CHOOSE i \in 1..Len(s) : s[i].id = id
HasId(s, id) == \E i \in 1..Len(s) : s[i].id = id

\* C1: a recomputation tick that synthesizes again the identifier of a
\* notification that is marked read keeps that notification read.
C1_TickKeepsRead ==
  [][NCTick =>
       \A i \in 1..Len(notifications) :
         (notifications[i].read /\ HasId(notifications', notifications[i].id))
           => notifications'[IndexOf(notifications', notifications[i].id)].read]_vars

\* the order the specification asks of two neighbours of a notification list
priorityRank(x) == CASE x.priority = "high" -> 3
                     [] x.priority = "medium" -> 2
                     [] x.priority = "low" -> 1
InOrder(x, y) ==
  \/ priorityRank(x) > priorityRank(y)
  \/ priorityRank(x) = priorityRank(y) /\ x.timestamp >= y.timestamp

\* C2: in every reachable notification list, each notification and its
\* successor are in priority-then-recency order: the first has the higher
\* priority, or the same priority and a timestamp that is not older.
C2_NotificationOrder ==
  \A i \in 1..(Len(notifications) - 1) : InOrder(notifications[i], notifications[i + 1])

\* a list where priority beats recency, recency decides within one priority,
\* and a notification has been marked read
C2_Witness ==
  /\ Len(notifications) >= 3
  /\ \E i \in 1..(Len(notifications) - 1) :
       /\ priorityRank(notifications[i]) > priorityRank(notifications[i + 1])
       /\ notifications[i].timestamp < notifications[i + 1].timestamp
  /\ \E i \in 1..(Len(notifications) - 1) :
       /\ priorityRank(notifications[i]) = priorityRank(notifications[i + 1])
       /\ notifications[i].timestamp > notifications[i + 1].timestamp
  /\ \E i \in 1..Len(notifications) : notifications[i].read

\* C10: a panel whose current user is absent shows no notification and an
\* unread count of 0, whatever the repository holds.
C10_AbsentUserEmpty ==
  currentUser = NoUser => (notifications = <<>> /\ unreadCount = 0)

\* an absent user's panel, mounted over a repository whose requests notify
\* an admin and a student
C10_Witness ==
  /\ currentUser = NoUser
  /\ ncTimer = "active"
  /\ reported = 0
  /\ adminNotifications(requests, now) # <<>>
  /\ studentNotifications(requests, StudentUser, now) # <<>>

\* the kinds each filter value is to admit
ActivityKinds == {"request", "approval", "checkout", "return", "rejection"}
AdmittedKinds(f) ==
  CASE f = "requests" -> {"request"}
    [] f = "approvals" -> {"approval", "checkout"}
    [] f = "returns" -> {"return"}
    [] f = "all" -> ActivityKinds

Select(s, kinds) ==
  LET Keep(a) == a.type \in kinds IN SelectSeq(s, Keep)

\* loadActivities has run, and maxItems is no smaller than the number of
\* items any repository of this size yields
Derived == afTimer = "active"
Untruncated == maxItems >= 3 * Len(requests)

ItemsOf(r) == {i \in 1..Len(activities) : activities[i].id[2] = r.id}
CountOf(id, kind) ==
  Cardinality({i \in 1..Len(activities) :
                 activities[i].id = id /\ activities[i].type = kind})

\* C3: in every derived activity list, whatever the filter and maxItems, each
\* item's timestamp is at least its successor's.
C3_ActivityOrder ==
  \A i \in 1..(Len(activities) - 1) :
    activities[i].timestamp >= activities[i + 1].timestamp

\* a filtered and truncated list that still spans two timestamps
C3_Witness ==
  /\ Derived
  /\ filter = "approvals"
  /\ maxItems > 1
  /\ Len(activities) = maxItems
  /\ Len(Select(sortActivities(activityItems(requests)), AdmittedKinds(filter))) > maxItems
  /\ activities[1].timestamp > activities[Len(activities)].timestamp

\* C4: for every approved request with an approvedDate, the unfiltered and
\* untruncated feed holds exactly one request, one approval and one checkout
\* item of that request, the approval and checkout both stamped approvedDate,
\* and the approval comes before the checkout.
C4_ApprovedTriple ==
  (Derived /\ filter = "all" /\ Untruncated) =>
    \A k \in 1..Len(requests) :
      LET r == requests[k] IN
      (r.status = "approved" /\ r.approvedDate # NoDate) =>
        /\ \A kind \in {"request", "approval", "checkout"} :
             /\ CountOf(<<kind, r.id>>, kind) = 1
             /\ Cardinality({i \in ItemsOf(r) : activities[i].type = kind}) = 1
        /\ activities[IndexOf(activities, <<"approval", r.id>>)].timestamp = r.approvedDate
        /\ activities[IndexOf(activities, <<"checkout", r.id>>)].timestamp = r.approvedDate
        /\ IndexOf(activities, <<"approval", r.id>>)
             < IndexOf(activities, <<"checkout", r.id>>)

\* two approved requests whose six items all carry the same timestamp
C4_Witness ==
  /\ Derived /\ filter = "all" /\ Untruncated
  /\ Len(requests) = 2
  /\ \A k \in 1..2 : /\ requests[k].status = "approved"
                     /\ requests[k].approvedDate = requests[k].requestDate
                     /\ requests[k].approvedDate = requests[1].approvedDate
  /\ Len(activities) = 6

\* C5: for every pending request, the unfiltered and untruncated feed holds
\* exactly one item of that request, its request item, whatever date fields
\* the record carries.
C5_PendingOnlyRequest ==
  (Derived /\ filter = "all" /\ Untruncated) =>
    \A k \in 1..Len(requests) :
      LET r == requests[k] IN
      r.status = "pending" =>
        /\ Cardinality(ItemsOf(r)) = 1
        /\ CountOf(<<"request", r.id>>, "request") = 1

\* a pending record that carries both an approvedDate and a returnedDate
C5_Witness ==
  /\ Derived /\ filter = "all" /\ Untruncated
  /\ \E k \in 1..Len(requests) :
       /\ requests[k].status = "pending"
       /\ requests[k].approvedDate # NoDate
       /\ requests[k].returnedDate # NoDate
       /\ CountOf(<<"request", requests[k].id>>, "request") = 1

\* C6: while the feed is shown, every displayed item is of a kind the
\* currently selected filter admits (after a filter change and after every
\* later tick).
C6_FilterApplied ==
  (afTimer = "active" /\ ~loading) =>
    \A i \in 1..Len(activities) : activities[i].type \in AdmittedKinds(filter)

\* C7: the untruncated output under filter f is the sorted unfiltered feed
\* with exactly the items of the kinds f admits kept, in their order.
C7_FilterSemantics ==
  (Derived /\ Untruncated) =>
    activities = Select(loadedActivities(requests, "all", maxItems), AdmittedKinds(filter))

\* the approvals filter keeping approval and checkout items from around an
\* item it leaves out
C7_Witness ==
  /\ Derived /\ Untruncated
  /\ filter = "approvals"
  /\ \E i, j \in 1..Len(activities) :
       activities[i].type = "approval" /\ activities[j].type = "checkout"
  /\ LET all == loadedActivities(requests, "all", maxItems) IN
     \E i, j, k \in 1..Len(all) :
       /\ i < j /\ j < k
       /\ all[i].type \in AdmittedKinds(filter)
       /\ all[j].type \notin AdmittedKinds(filter)
       /\ all[k].type \in AdmittedKinds(filter)

\* C8: the output is the first min(maxItems, n) items of the sorted, then
\* filtered, sequence of length n, so it is never longer than maxItems.
C8_TruncateAfterFilter ==
  Derived =>
    LET F == Select(sortActivities(activityItems(requests)), AdmittedKinds(filter)) IN
    /\ activities = SubSeq(F, 1, Min(maxItems, Len(F)))
    /\ Len(activities) <= maxItems

\* a truncated filtered list, with an item the filter leaves out among the
\* first maxItems of the unfiltered feed
C8_Witness ==
  /\ Derived
  /\ filter # "all"
  /\ maxItems > 0
  /\ Len(activities) = maxItems
  /\ LET S == sortActivities(activityItems(requests)) IN
     /\ Len(Select(S, AdmittedKinds(filter))) > maxItems
     /\ \E i \in 1..maxItems : S[i].type \notin AdmittedKinds(filter)

Synthesized == userNotifications(requests, currentUser, now)
ListedIds == {notifications[i].id : i \in 1..Len(notifications)}

\* C9: the notification list never holds more than 20 notifications, and
\* when synthesis yields more, the 20 kept are the head of the
\* priority-then-recency order: the list is in that order, and every kept
\* notification precedes or ties every omitted one in it.
C9_CapAfterOrdering ==
  /\ Len(notifications) <= NotificationCap
  /\ ncTimer = "active" =>
       \A S \in {Synthesized} :
         Len(S) > NotificationCap =>
           /\ Len(notifications) = NotificationCap
           /\ \A i \in 1..(Len(notifications) - 1) :
                InOrder(notifications[i], notifications[i + 1])
           /\ \A u \in {S[j] : j \in 1..Len(S)} :
                \/ u.id \in ListedIds
                \/ \A i \in 1..Len(notifications) : InOrder(notifications[i], u)

\* more than 20 synthesized, with a medium one among the first 20 pushed and
\* a high one pushed after them
C9_Witness ==
  /\ ncTimer = "active"
  /\ Len(notifications) = NotificationCap
  /\ \E S \in {Synthesized} :
       /\ Len(S) > NotificationCap
       /\ \E i \in 1..NotificationCap : S[i].priority = "medium"
       /\ \E j \in (NotificationCap + 1)..Len(S) : S[j].priority = "high"
       /\ \E j \in 1..Len(S) : S[j].id \notin ListedIds

\* C11: markAsRead(id) gives the notification with that identifier read=true
\* and leaves every other notification, the length and the order as they were;
\* when no notification has the identifier, the list is unchanged.
C11_MarkAsReadFrame ==
  [][\A id \in NotificationIds :
       markAsRead(id) =>
         /\ Len(notifications') = Len(notifications)
         /\ \A i \in 1..Len(notifications) :
              notifications'[i] =
                IF notifications[i].id = id
                THEN [notifications[i] EXCEPT !.read = TRUE]
                ELSE notifications[i]
         /\ ~HasId(notifications, id) => notifications' = notifications]_vars

\* one notification marked read between two unread ones, the next one linked
\* to the same request
C11_Witness ==
  /\ Len(notifications) >= 3
  /\ ~notifications[1].read
  /\ notifications[2].read
  /\ ~notifications[3].read
  /\ \E j \in {1, 3} : notifications[j].requestId = notifications[2].requestId

\* C12: markAllAsRead gives every notification of the list read=true, so that
\* none is unread, and changes no identifier, no other field, and neither the
\* length nor the order.
C12_MarkAllAsRead ==
  [][markAllAsRead =>
       /\ Len(notifications') = Len(notifications)
       /\ \A i \in 1..Len(notifications) :
            notifications'[i] = [notifications[i] EXCEPT !.read = TRUE]
       /\ unreadOf(notifications') = 0]_vars

\* three or more notifications, all unread when the last count was taken,
\* all read one step later
C12_Witness ==
  /\ Len(notifications) >= 3
  /\ effectPending
  /\ unreadCount = Len(notifications)
  /\ \A i \in 1..Len(notifications) : notifications[i].read

\* C13: in a mounted panel with no change of the list pending, the stored
\* unread count and the count last handed to the callback both are the number
\* of notifications with read=false; and every change of the list is followed
\* by the effect that recomputes and reports it, unless the panel unmounts.
C13_UnreadReported ==
  /\ []((ncTimer = "active" /\ ~effectPending) =>
          /\ unreadCount = unreadOf(notifications)
          /\ reported = unreadOf(notifications))
  /\ ((ncTimer = "active" /\ effectPending)
        ~> (~effectPending \/ ncTimer = "cleared"))

\* a count reported after a change that left some read and some unread
C13_Witness ==
  /\ ncTimer = "active"
  /\ ~effectPending
  /\ reported > 0
  /\ reported < Len(notifications)
  /\ reported = unreadOf(notifications)

\* the notifications of one kind that the list links to request r
Linked(kind, r) ==
  {i \in 1..Len(notifications) :
     notifications[i].type = kind /\ notifications[i].requestId = r.id}

\* the calendar day an instant falls on
DayOf(t) == t \div DAY

AdminLoaded == ncTimer = "active" /\ currentUser = AdminUser
StudentLoaded == ncTimer = "active" /\ currentUser = StudentUser

\* C14: in the admin view every pending request has exactly one approval
\* notification linked to it, of priority high and stamped with its
\* requestDate, and a request of any other status has none.
C14_AdminPending ==
  AdminLoaded =>
    \A k \in 1..Len(requests) :
      LET r == requests[k] IN
      IF r.status = "pending"
      THEN /\ Cardinality(Linked("approval", r)) = 1
           /\ \A i \in Linked("approval", r) :
                /\ notifications[i].priority = "high"
                /\ notifications[i].timestamp = r.requestDate
      ELSE Linked("approval", r) = {}

\* a pending request that carries dates beside an approved one and an
\* overdue one
C14_Witness ==
  /\ AdminLoaded
  /\ \E k, j \in 1..Len(requests) :
       /\ requests[k].status = "pending"
       /\ requests[k].approvedDate # NoDate
       /\ requests[j].status \in {"approved", "overdue"}
       /\ requests[j].approvedDate # NoDate
       /\ Linked("approval", requests[k]) # {}
       /\ Len(notifications) >= 2

\* C15: in the admin view an approved request has one reminder notification,
\* of priority high, exactly when the day of its due date is before the day
\* of now, and none otherwise.
C15_AdminOverdueByDay ==
  AdminLoaded =>
    \A k \in 1..Len(requests) :
      LET r == requests[k] IN
      r.status = "approved" =>
        IF DayOf(r.dueDate) < DayOf(now)
        THEN /\ Cardinality(Linked("reminder", r)) = 1
             /\ \A i \in Linked("reminder", r) : notifications[i].priority = "high"
        ELSE Linked("reminder", r) = {}

\* C16: in a student's view every notification is linked to a request of
\* that student.
C16_StudentIsolation ==
  StudentLoaded =>
    \A i \in 1..Len(notifications) :
      \E k \in 1..Len(requests) :
        /\ requests[k].id = notifications[i].requestId
        /\ requests[k].studentId = currentUser.id

\* the student's own request notifies, beside another student's approved
\* request that is due within the reminder window
C16_Witness ==
  /\ StudentLoaded
  /\ notifications # <<>>
  /\ \E k \in 1..Len(requests) :
       /\ requests[k].studentId # currentUser.id
       /\ requests[k].status = "approved"
       /\ requests[k].approvedDate # NoDate
       /\ daysDiff(requests[k], now) \in 0..2

\* C17: in the student view an owned approved request has one reminder
\* notification exactly when its due date is 0, 1 or 2 calendar days after
\* today, of priority high when it is due today and medium otherwise.
C17_StudentReminderByDay ==
  StudentLoaded =>
    \A k \in 1..Len(requests) :
      LET r == requests[k]
          d == DayOf(r.dueDate) - DayOf(now)
      IN  (r.status = "approved" /\ r.studentId = currentUser.id) =>
            IF d \in 0..2
            THEN /\ Cardinality(Linked("reminder", r)) = 1
                 /\ \A i \in Linked("reminder", r) :
                      notifications[i].priority = IF d = 0 THEN "high" ELSE "medium"
            ELSE Linked("reminder", r) = {}

\* C18: in the student view an owned rejected request has exactly one
\* rejection notification, linked to it and of priority medium, and no
\* approval and no reminder notification.
C18_StudentRejection ==
  StudentLoaded =>
    \A k \in 1..Len(requests) :
      LET r == requests[k] IN
      (r.status = "rejected" /\ r.studentId = currentUser.id) =>
        /\ Cardinality(Linked("rejection", r)) = 1
        /\ \A i \in Linked("rejection", r) : notifications[i].priority = "medium"
        /\ Linked("approval", r) = {}
        /\ Linked("reminder", r) = {}
        /\ Cardinality({i \in 1..Len(notifications) :
                          notifications[i].requestId = r.id}) = 1

\* an owned rejected request whose due date is within the reminder window,
\* beside an owned approved request that is reminded of
C18_Witness ==
  /\ StudentLoaded
  /\ \E k, j \in 1..Len(requests) :
       /\ requests[k].status = "rejected"
       /\ requests[k].studentId = currentUser.id
       /\ daysDiff(requests[k], now) \in 0..2
       /\ Linked("rejection", requests[k]) # {}
       /\ Linked("reminder", requests[j]) # {}

\* C19: for every returned request, the unfiltered and untruncated feed holds
\* a return item of that request beside its request item, whatever else the
\* record carries.
C19_ReturnedItem ==
  (Derived /\ filter = "all" /\ Untruncated) =>
    \A k \in 1..Len(requests) :
      LET r == requests[k] IN
      r.status = "returned" =>
        /\ CountOf(<<"request", r.id>>, "request") = 1
        /\ CountOf(<<"return", r.id>>, "return") = 1

\* a notification list with its read flags put aside, and its identifiers
Unread(ns) == [i \in 1..Len(ns) |-> [ns[i] EXCEPT !.read = FALSE]]
IdsOf(ns) == [i \in 1..Len(ns) |-> ns[i].id]

\* C20 as stated: over a repository that does not change, a tick of the feed
\* leaves the activity list as it is, and a tick of the panel leaves the
\* identifiers of the notification list and their order as they are.
C20_TickKeepsIds ==
  [][/\ AFTick => activities' = activities
     /\ NCTick => IdsOf(notifications') = IdsOf(notifications)]_vars

\* C20, amended: a second derivation from the same inputs gives the same
\* sequence. A tick of the feed leaves the activity list as it is; a tick of
\* the panel that finds displayed, read flags aside, what the derivation
\* gives for the repository, the user and the clock it reads, leaves every
\* identifier, field and position as it is, read flags aside.
C20_Idempotent ==
  [][/\ AFTick => activities' = activities
     /\ (NCTick /\ Unread(notifications) =
                     derivedNotifications(requests, currentUser, now))
          => Unread(notifications') = Unread(notifications)]_vars

\* both views loaded; the panel has ticked since a notification was marked
\* read, and shows again what it showed, all unread
C20_Witness ==
  /\ afTimer = "active"
  /\ activities # <<>>
  /\ ncTimer = "active"
  /\ effectPending
  /\ Len(notifications) >= 2
  /\ unreadCount = Len(notifications) - 1
  /\ \A i \in 1..Len(notifications) : ~notifications[i].read
  /\ notifications = derivedNotifications(requests, currentUser, now)

\* C21: after a tick of a panel with a user, the identifiers of the list
\* are, in order, those of the capped synthesis over the repository as the
\* tick reads it: an identifier that is not synthesized any more is gone.
C21_TickSynchronises ==
  [][(NCTick /\ currentUser # NoUser) =>
       /\ IdsOf(notifications') =
            IdsOf(derivedNotifications(requests, currentUser, now))
       /\ \A i \in 1..Len(notifications) :
            HasId(notifications', notifications[i].id)
              => HasId(userNotifications(requests, currentUser, now),
                       notifications[i].id)]_vars

\* the admin's list after a tick, shorter than the list last counted: a
\* request has left the pending state and its pending notification is gone,
\* another's is still listed
C21_Witness ==
  /\ AdminLoaded
  /\ effectPending
  /\ reported > Len(notifications)
  /\ \E k, j \in 1..Len(requests) :
       /\ requests[k].status = "rejected"
       /\ ~HasId(notifications, <<"pending", k>>)
       /\ HasId(notifications, <<"pending", j>>)

\* C22: each view takes its timer when it mounts and gives it up when it
\* unmounts; nothing is derived before the timer is taken; once a view's
\* timer is cleared its list never changes again and the timer stays
\* cleared; and a tick of one view changes nothing of the other view.
C22_TimerLifecycle ==
  /\ [](/\ ncTimer = "none" => notifications = <<>>
        /\ afTimer = "none" => activities = <<>> /\ loading)
  /\ [][/\ NCMount => ncTimer' = "active"
        /\ AFMount => afTimer' = "active"
        /\ NCUnmount => ncTimer' = "cleared"
        /\ AFUnmount => afTimer' = "cleared"
        /\ ncTimer = "cleared" =>
             notifications' = notifications /\ ncTimer' = "cleared"
        /\ afTimer = "cleared" =>
             activities' = activities /\ afTimer' = "cleared"
        /\ NCTick => UNCHANGED afVars
        /\ AFTick => UNCHANGED ncVars]_vars

\* both views unmounted, each still showing a pending request that has been
\* approved since
C22_Witness ==
  /\ ncTimer = "cleared"
  /\ afTimer = "cleared"
  /\ currentUser = AdminUser
  /\ \E k \in 1..Len(requests) :
       /\ requests[k].status = "approved"
       /\ HasId(notifications, <<"pending", k>>)
       /\ ~HasId(activities, <<"approval", k>>)
       /\ HasId(loadedActivities(requests, closureFilter, maxItems),
                <<"approval", k>>)

\* C23: in a loaded feed every item with a malformed timestamp comes after
\* every item with a valid one, and the items with valid timestamps are in
\* descending order of timestamp among themselves.
C23_MalformedLast ==
  Derived =>
    \A i, j \in 1..Len(activities) :
      i < j =>
        /\ GetTime(activities[j].timestamp) # NaN => GetTime(activities[i].timestamp) # NaN
        /\ (GetTime(activities[i].timestamp) # NaN /\ GetTime(activities[j].timestamp) # NaN)
             => GetTime(activities[i].timestamp) >= GetTime(activities[j].timestamp)

\* the identifier string `${prefix}_${request.id}` of an entry
IdString(id) == id[1] \o "_" \o ToString(id[2])

\* C24: the requests having pairwise distinct ids, no two entries of the
\* notification list share an identifier and no two entries of the activity
\* list share an identifier.
C24_UniqueIds ==
  (\A k, l \in 1..Len(requests) : k # l => requests[k].id # requests[l].id) =>
    /\ \A i, j \in 1..Len(notifications) :
         i # j => IdString(notifications[i].id) # IdString(notifications[j].id)
    /\ \A i, j \in 1..Len(activities) :
         i # j => IdString(activities[i].id) # IdString(activities[j].id)

\* a request that has two notifications and three feed items, after a tick
C24_Witness ==
  /\ StudentLoaded /\ afTimer = "active" /\ reported > 0
  /\ \E k \in 1..Len(requests) :
       /\ \E l \in 1..Len(requests) : k # l /\ requests[k].id # requests[l].id
       /\ HasId(notifications, <<"approved", k>>)
       /\ HasId(notifications, <<"reminder", k>>)
       /\ Cardinality(ItemsOf(requests[k])) = 3

\* C25: in the student view an owned approved request whose due instant is
\* strictly earlier than now has no reminder notification.
C25_NoReminderPastDue ==
  StudentLoaded =>
    \A k \in 1..Len(requests) :
      LET r == requests[k] IN
      (r.status = "approved" /\ r.studentId = currentUser.id
         /\ GetTime(r.dueDate) < now) => Linked("reminder", r) = {}

\* C26: a request of status overdue has no notification in the admin view,
\* of any kind, and exactly one item in the unfiltered, untruncated feed: its
\* request item.
C26_OverdueStatus ==
  \A k \in 1..Len(requests) :
    LET r == requests[k] IN
    r.status = "overdue" =>
      /\ AdminLoaded =>
           \A i \in 1..Len(notifications) :
             notifications[i].requestId # r.id /\ notifications[i].id[2] # r.id
      /\ (Derived /\ closureFilter = "all" /\ Untruncated) =>
           /\ Cardinality(ItemsOf(r)) = 1
           /\ \A i \in ItemsOf(r) :
                activities[i].id = <<"request", r.id>> /\ activities[i].type = "request"

\* both views loaded over an overdue request that is past due and carries an
\* approval date within the last day and a return date, beside an approved
\* request that the admin is reminded of
C26_Witness ==
  /\ AdminLoaded /\ Derived /\ closureFilter = "all" /\ Untruncated
  /\ \E k, j \in 1..Len(requests) :
       /\ requests[k].status = "overdue"
       /\ requests[k].approvedDate # NoDate
       /\ GetTime(requests[k].approvedDate) > now - DAY
       /\ requests[k].returnedDate # NoDate
       /\ GetTime(requests[k].dueDate) < now
       /\ HasId(notifications, <<"overdue", j>>)
       /\ HasId(activities, <<"request", k>>)
====
